---- MODULE Spec2Model ----
(***************************************************************************)
(* Keyforge: the vault store (src/vault/storage.ts), the vault encryption  *)
(* (src/vault/encryption.ts), the export and import commands and the       *)
(* session manager of the CLI.                                             *)
(*                                                                         *)
(* Spec, SpecConc: one VaultManager instance over one vault file.  Every   *)
(* mutating method is an async function: its body up to the first await    *)
(* runs as one step (the in-memory mutation and the evaluation of          *)
(* calculateChecksum), the rest of save() resumes in a later step and      *)
(* hands the bytes to Bun.write, which settles in yet another one.         *)
(* SpecLife: managers constructed one after another over the same file,    *)
(* with one seed or another, and a file that can go missing or bad.        *)
(* SpecCrypto: encrypt, tampering and decrypt.  SpecCli: export and import *)
(* commands over a saved vault.  SpecSession: the cached master seed and   *)
(* its timeout.  SpecSeed: the seed as a Buffer shared by the session and  *)
(* a VaultManager.  SpecDerive, SpecExpand: master seed and domain key     *)
(* derivation.  SpecTotp, SpecSync, SpecRecover: the totp command, sync()  *)
(* and the recover command.  SpecConfig: ConfigManager.  SpecMany: several *)
(* commands, each with its own VaultManager, over one vault file.          *)
(*                                                                         *)
(* Timestamps are readings of a clock that never runs backwards; each      *)
(* reading is the previous one or a later one.  SHA-256 and the AEAD are   *)
(* modelled as injective: a digest is represented by its preimage and a    *)
(* ciphertext by the pair (plaintext, key).                                *)
(***************************************************************************)
EXTENDS Integers, Sequences, FiniteSets, TLC

VARIABLES
    vault,      \* VaultManager.vault, the in-memory VaultData
    file,       \* content of the file at VaultManager.vaultPath
    now,        \* the latest reading of the clock taken by new Date()
    nextId,     \* number of ids handed out by generateId()
    tasks,      \* mutating calls whose promise has not settled yet
    issued,     \* number of mutating calls made so far
    base,       \* the vault the manager started from (construction or load)
    oplog,      \* the calls that changed the in-memory vault since, in call order
    last,       \* outcome of the call that settled most recently
    clean,      \* TRUE while no write has failed
    serial,     \* TRUE when the caller awaits every call before making the next
    masterSeed, \* VaultManager.masterSeed, the seed the manager was constructed with
    sealed,     \* VaultEncryption: the { encrypted, nonce, tag } under examination
    opened,     \* VaultEncryption: what decrypt made of it
    session,    \* SessionManager: the static fields and the pending timers
    clock,      \* SessionManager: the time, in units of half a timeout
    exportFile, \* ExportCommand / ImportCommand: the file written by export
    cli,        \* ExportCommand / ImportCommand: outcome of the last command
    heap,       \* the Buffer objects that have held a master seed, by identity
    held,       \* the Buffer SessionManager.masterSeed refers to, 0 when undefined
    seedRef,    \* the Buffer VaultManager.masterSeed refers to, 0 before construction
    exited,     \* the event that ended the process, "" while it runs
    kdf,        \* MasterDerivation / DomainDerivation: the calls made so far
    config,     \* ConfigManager: DEFAULT_CONFIG, this.config and their objects
    instances   \* the VaultManager of each command running against one vault file

vaultVars == <<vault, file, now, nextId, tasks, issued, base, oplog, last, clean,
               serial, masterSeed>>
cryptoVars == <<sealed, opened>>
sessionVars == <<session, clock>>
cliVars == <<exportFile, cli>>
heapVars == <<heap, held, seedRef, exited>>
libVars == <<kdf, config, instances>>
restVars == <<heapVars, libVars>>

vars == <<vaultVars, cryptoVars, sessionVars, cliVars, restVars>>

\* what a step of the vault manager leaves alone
elsewhere == <<cryptoVars, sessionVars, cliVars, restVars>>

----------------------------------------------------------------------------
(* Bounds of the exploration *)

MaxOps == 2
MaxTime == 1

(* Input alphabets *)

Sites == {"a.com", "b.com"}
Absent == "<absent>"         \* a property the object does not have
Undefined == "<undefined>"   \* a property whose value is undefined
MasterSeed == "seed1"
NoteIds == {1, 2}

PasswordPatches ==
    { [site |-> Absent,  password |-> "",     username |-> Absent],
      [site |-> Absent,  password |-> "pw1",  username |-> Absent],
      [site |-> Absent,  password |-> "pw2",  username |-> Absent],
      [site |-> "b.com", password |-> Absent, username |-> "bob"] }

NotePatches == { [title |-> "t2"] }

----------------------------------------------------------------------------
(* Pure helpers *)

Min(a, b) == IF a <= b THEN a ELSE b

\* Array.prototype.findIndex: first index whose element satisfies the test, 0 if none
FindSite(pws, site) ==
    IF \E i \in 1..Len(pws) : pws[i].site = site
    THEN CHOOSE i \in 1..Len(pws) :
            /\ pws[i].site = site
            /\ \A j \in 1..(i-1) : pws[j].site # site
    ELSE 0

FindNote(ns, id) ==
    IF \E i \in 1..Len(ns) : ns[i].id = id
    THEN CHOOSE i \in 1..Len(ns) :
            /\ ns[i].id = id
            /\ \A j \in 1..(i-1) : ns[j].id # id
    ELSE 0

\* Array.prototype.splice(index, 1)
Splice(s, i) == [k \in 1..(Len(s)-1) |-> IF k < i THEN s[k] ELSE s[k+1]]

\* the readings new Date() can give when the previous reading was t: the
\* same millisecond or a later one
Later(t) == t..Min(t + 1, MaxTime)

----------------------------------------------------------------------------
(* VaultManager: the synchronous bodies *)

initializeVault(t) ==
    [ version   |-> 1,
      created   |-> t,
      updated   |-> t,
      ssh       |-> <<>>,
      gpg       |-> <<>>,
      wallets   |-> <<>>,
      totp      |-> <<>>,
      passwords |-> <<>>,
      notes     |-> <<>>,
      checksum  |-> <<>>,
      backups   |-> {} ]

addPasswordBody(v, id, site, username, password, t) ==
    [v EXCEPT !.passwords = Append(@, [ id |-> id, site |-> site,
                                        username |-> username,
                                        password |-> password,
                                        created |-> t, modified |-> t,
                                        passwordHistory |-> <<>> ]),
              !.updated = t]

\* the truthiness test "updates.password &&": undefined and "" are falsy
Truthy(x) == x # Absent /\ x # Undefined /\ x # ""

Assign(old, new) == IF new = Absent THEN old ELSE new

\* mutation: the update stamps the record but not the vault
updatePasswordBodyNoStamp(v, i, updates, t) ==
    [v EXCEPT !.passwords[i] =
                  [@ EXCEPT !.site = Assign(@, updates.site),
                            !.password = Assign(@, updates.password),
                            !.username = Assign(@, updates.username),
                            !.modified = t]]

updatePasswordBody(v, i, updates, t) ==
    LET p == v.passwords[i]
        hist == IF Truthy(updates.password) /\ updates.password # p.password
                THEN Append(p.passwordHistory,
                            [password |-> p.password, changed |-> p.modified])
                ELSE p.passwordHistory
        q == [p EXCEPT !.passwordHistory = hist,
                       !.site = Assign(@, updates.site),
                       !.password = Assign(@, updates.password),
                       !.username = Assign(@, updates.username),
                       !.modified = t]
    IN [v EXCEPT !.passwords[i] = q, !.updated = t]

deletePasswordBody(v, i, t) ==
    [v EXCEPT !.passwords = Splice(@, i), !.updated = t]

addNoteBody(v, id, title, t) ==
    [v EXCEPT !.notes = Append(@, [ id |-> id, title |-> title,
                                    attachments |-> <<>>,
                                    created |-> t, modified |-> t ]),
              !.updated = t]

updateNoteBody(v, i, updates, t) ==
    [v EXCEPT !.notes[i] = [@ EXCEPT !.title = updates.title, !.modified = t],
              !.updated = t]

deleteNoteBody(v, i, t) ==
    [v EXCEPT !.notes = Splice(@, i), !.updated = t]

addSSHBody(v, id, hostname, t) ==
    [v EXCEPT !.ssh = Append(@, [id |-> id, hostname |-> hostname, created |-> t]),
              !.updated = t]

addWalletConfigBody(v, id, service, xpub, t) ==
    [v EXCEPT !.wallets = Append(@, [id |-> id, service |-> service,
                                     xpub |-> xpub, created |-> <<t>>]),
              !.updated = t]

\* addWallet stores no "created" property
addWalletBody(v, id, service, xpub, t) ==
    [v EXCEPT !.wallets = Append(@, [id |-> id, service |-> service,
                                     xpub |-> xpub, created |-> <<>>]),
              !.updated = t]

addGPGKeyBody(v, id, service, t1, t2) ==
    [v EXCEPT !.gpg = Append(@, [id |-> id, service |-> service, created |-> t1]),
              !.updated = t2]

addTOTPBody(v, id, service, t) ==
    [v EXCEPT !.totp = Append(@, [id |-> id, service |-> service]),
              !.updated = t]

----------------------------------------------------------------------------
(* VaultEncryption and the file envelope *)

\* JSON.stringify leaves out every property whose value is undefined
Stringify(v) ==
    [v EXCEPT !.wallets = [k \in 1..Len(@) |->
                              [@[k] EXCEPT !.xpub = IF @ = Undefined THEN Absent ELSE @]]]

\* JSON.parse of a string JSON.stringify produced
Parse(s) == s

\* calculateChecksum: SHA-256 over JSON.stringify of the vault with checksum ""
calculateChecksum(v) == << Stringify([v EXCEPT !.checksum = <<>>]) >>

validateIntegrity(v) == v.checksum = calculateChecksum(v)

NoFile      == [kind |-> "absent",  key |-> "", data |-> <<>>]
PartialFile == [kind |-> "partial", key |-> "", data |-> <<>>]

\* VaultEncryption.encrypt followed by the framing of save()
encrypt(v, seed) == [kind |-> "vault", key |-> seed, data |-> <<Stringify(v)>>]

\* VaultEncryption.decrypt succeeds only on an intact envelope sealed with the same seed
CanDecrypt(f, seed) == f.kind = "vault" /\ f.key = seed

decrypt(f) == Parse(f.data[1])

\* loadVault / load: a missing file keeps the vault, a failure resets it
loadVault(cur, f, seed, t) ==
    IF f.kind = "absent" THEN cur
    ELSE IF CanDecrypt(f, seed) THEN decrypt(f)
    ELSE initializeVault(t)

\* new VaultManager(seed, path): an empty vault, then loadVault()
constructor(f, seed, t) == loadVault(initializeVault(t), f, seed, t)

\* expect(a).toEqual(b) on two properties: a property whose value is
\* undefined equals a property the object does not have
SameProp(x, y) == x = y \/ ({x, y} \subseteq {Undefined, Absent})

\* expect(a).toEqual(b) on two vaults
toEqual(a, b) ==
    /\ [a EXCEPT !.wallets = <<>>] = [b EXCEPT !.wallets = <<>>]
    /\ Len(a.wallets) = Len(b.wallets)
    /\ \A i \in 1..Len(a.wallets) :
          /\ [a.wallets[i] EXCEPT !.xpub = ""] = [b.wallets[i] EXCEPT !.xpub = ""]
          /\ SameProp(a.wallets[i].xpub, b.wallets[i].xpub)

NoBox == [kind |-> "none"]

\* no derivation has been called
NoCall == [fn |-> "", args |-> <<>>, out |-> <<>>]
NoCalls == [kept |-> NoCall, cur |-> NoCall, n |-> 0]

\* no ConfigManager has been constructed
NoConfig == [built |-> FALSE]
\* SessionManager before any call: no seed, no timer handle, no timer pending;
\* since / accessed / expired / got record when the session was initialized
\* and last accessed, how long it had been idle when a timer cleared it, and
\* what the last getMasterSeed returned
NoSession ==
    [ masterSeed |-> Undefined, sessionTimeout |-> 0, timers |-> {},
      deriving |-> {}, since |-> -1, accessed |-> -1, expired |-> -1,
      got |-> "" ]

----------------------------------------------------------------------------
(* The calls and their outcomes *)

NoPatch == [site |-> Absent, password |-> Absent, username |-> Absent]
NoArg   == [site |-> "", password |-> "", patch |-> NoPatch, note |-> 0, title |-> ""]

Outcome(op, arg, result, pre) ==
    [op |-> op, arg |-> arg, result |-> result, pre |-> pre]

\* a call that reaches "await this.autoSave()": v2 is the vault its body left,
\* ids the number of generateId() calls, t the last clock reading it took.
\* save() runs up to "await this.calculateChecksum()", whose digest is
\* computed at the call and assigned, after the await, to the metadata
\* object that was current at the call.
BeginWith(op, arg, v2, ids, t, others) ==
    /\ issued < MaxOps
    /\ serial => tasks = {}
    /\ vault' = v2
    /\ tasks' = others \cup { [ id |-> issued + 1, op |-> op, arg |-> arg,
                                pc |-> "checksum",
                                ck |-> calculateChecksum(v2),
                                replaced |-> FALSE,
                                snap |-> NoFile, old |-> NoFile, pre |-> vault ] }
    /\ issued' = issued + 1
    /\ oplog' = Append(oplog, [op |-> op, arg |-> arg, id |-> nextId + 1, t |-> t])
    /\ nextId' = nextId + ids
    /\ now' = t
    /\ UNCHANGED <<file, base, last, clean, serial, masterSeed, elsewhere>>

Begin(op, arg, v2, ids, t) == BeginWith(op, arg, v2, ids, t, tasks)

\* a call that throws before it changes anything
Reject(op, arg, result) ==
    /\ issued < MaxOps
    /\ serial => tasks = {}
    /\ issued' = issued + 1
    /\ last' = Outcome(op, arg, result, vault)
    /\ UNCHANGED <<vault, file, now, nextId, tasks, base, oplog, clean, serial, masterSeed, elsewhere>>

AddPassword(site, password, t) ==
    Begin("addPassword", [NoArg EXCEPT !.site = site, !.password = password],
          addPasswordBody(vault, nextId + 1, site, "alice", password, t), 1, t)

UpdatePassword(site, updates, t) ==
    LET i == FindSite(vault.passwords, site)
        arg == [NoArg EXCEPT !.site = site, !.patch = updates]
    IN IF i = 0
       THEN Reject("updatePassword", [NoArg EXCEPT !.site = site], "NotFound")
       ELSE Begin("updatePassword", arg, updatePasswordBody(vault, i, updates, t), 0, t)

\* mutation: no "not found" check, so splice(-1, 1) drops the last entry
DeletePasswordUnchecked(site, t) ==
    Begin("deletePassword", [NoArg EXCEPT !.site = site],
          deletePasswordBody(vault,
                             IF FindSite(vault.passwords, site) = 0
                             THEN Len(vault.passwords)
                             ELSE FindSite(vault.passwords, site), t), 0, t)

DeletePassword(site, t) ==
    LET i == FindSite(vault.passwords, site)
        arg == [NoArg EXCEPT !.site = site]
    IN IF i = 0
       THEN Reject("deletePassword", arg, "NotFound")
       ELSE Begin("deletePassword", arg, deletePasswordBody(vault, i, t), 0, t)

AddNote(title, t) ==
    Begin("addNote", [NoArg EXCEPT !.title = title],
          addNoteBody(vault, nextId + 1, title, t), 1, t)

UpdateNote(id, updates, t) ==
    LET i == FindNote(vault.notes, id)
        arg == [NoArg EXCEPT !.note = id, !.title = updates.title]
    IN IF i = 0
       THEN Reject("updateNote", [NoArg EXCEPT !.note = id], "NotFound")
       ELSE Begin("updateNote", arg, updateNoteBody(vault, i, updates, t), 0, t)

DeleteNote(id, t) ==
    LET i == FindNote(vault.notes, id)
        arg == [NoArg EXCEPT !.note = id]
    IN IF i = 0
       THEN Reject("deleteNote", arg, "NotFound")
       ELSE Begin("deleteNote", arg, deleteNoteBody(vault, i, t), 0, t)

AddSSHConfig(t) ==
    Begin("addSSHConfig", [NoArg EXCEPT !.site = "github.com"],
          addSSHBody(vault, nextId + 1, "github.com", t), 1, t)

AddSSHKey(t) ==
    Begin("addSSHKey", [NoArg EXCEPT !.site = "github.com"],
          addSSHBody(vault, nextId + 1, "github.com", t), 1, t)

AddWalletConfig(t) ==
    Begin("addWalletConfig", [NoArg EXCEPT !.site = "personal", !.title = "xpub1"],
          addWalletConfigBody(vault, nextId + 1, "personal", "xpub1", t), 1, t)

AddWallet(t) ==
    Begin("addWallet", [NoArg EXCEPT !.site = "personal", !.title = Undefined],
          addWalletBody(vault, nextId + 1, "personal", Undefined, t), 1, t)

\* addGPGKey reads the clock twice: t1 for "created", t2 for "updated"
AddGPGKey(t1, t2) ==
    Begin("addGPGKey", [NoArg EXCEPT !.site = "personal", !.note = t1],
          addGPGKeyBody(vault, nextId + 1, "personal", t1, t2), 1, t2)

AddTOTP(t) ==
    Begin("addTOTP", [NoArg EXCEPT !.site = "github"],
          addTOTPBody(vault, nextId + 1, "github", t), 1, t)

\* clear() replaces this.vault: a save() still waiting for its digest then
\* assigns it to the metadata of the vault that was dropped
Clear(t) ==
    BeginWith("clear", NoArg, initializeVault(t), 0, t,
              { [k EXCEPT !.replaced = (k.pc = "checksum")] : k \in tasks })

----------------------------------------------------------------------------
(* save() after its first await, and Bun.write *)

Settle(k, result) ==
    /\ tasks' = tasks \ {k}
    /\ last' = Outcome(k.op, k.arg, result, k.pre)

\* mutation: the vault is encrypted before "updated" is stamped
SaveResumeEarly(k, t) ==
    /\ k.pc = "checksum"
    /\ now' = t
    /\ LET v1 == [vault EXCEPT !.checksum = IF k.replaced THEN @ ELSE k.ck]
       IN /\ vault' = [v1 EXCEPT !.updated = t]
          /\ tasks' = (tasks \ {k}) \cup
                      { [k EXCEPT !.pc = "writing", !.old = file,
                                  !.snap = encrypt(v1, masterSeed)] }
    /\ file' = PartialFile
    /\ UNCHANGED <<nextId, issued, base, oplog, last, clean, serial, masterSeed, elsewhere>>

\* storage.ts 333-347: assign the digest, stamp "updated", encrypt, frame and
\* hand the bytes to Bun.write, which opens the vault file itself, truncating it
SaveResume(k, t) ==
    /\ k.pc = "checksum"
    /\ now' = t
    /\ LET v2 == [vault EXCEPT !.checksum = IF k.replaced THEN @ ELSE k.ck,
                               !.updated = t]
       IN /\ vault' = v2
          /\ tasks' = (tasks \ {k}) \cup
                      { [k EXCEPT !.pc = "writing", !.old = file,
                                  !.snap = encrypt(v2, masterSeed)] }
    /\ file' = PartialFile
    /\ UNCHANGED <<nextId, issued, base, oplog, last, clean, serial, masterSeed, elsewhere>>

\* mutation: the bytes written are those of the vault before the call
WriteDoneStale(k) ==
    /\ k.pc = "writing"
    /\ file' = encrypt(k.pre, masterSeed)
    /\ Settle(k, "ok")
    /\ UNCHANGED <<vault, now, nextId, issued, base, oplog, clean, serial, masterSeed, elsewhere>>

\* the bytes are written and the promise of the call resolves
WriteDone(k) ==
    /\ k.pc = "writing"
    /\ file' = k.snap
    /\ Settle(k, "ok")
    /\ UNCHANGED <<vault, now, nextId, issued, base, oplog, clean, serial, masterSeed, elsewhere>>

\* Bun.write rejects (the write fails part-way); save() has no handler, so
\* the call rejects with the I/O error
WriteFail(k) ==
    /\ k.pc = "writing"
    /\ Settle(k, "Io")
    /\ clean' = FALSE
    /\ UNCHANGED <<vault, file, now, nextId, issued, base, oplog, serial, masterSeed, elsewhere>>

----------------------------------------------------------------------------
(* load() *)

\* what loadVault / load finds at vaultPath
Found(f, seed) ==
    IF f.kind = "absent" THEN "missing"
    ELSE IF f.kind # "vault" THEN "malformed"
    ELSE IF f.key # seed THEN "unauthentic"
    ELSE "intact"

\* load() of the live manager; a failed load stamps an empty vault with t
Load(t) ==
    /\ tasks = {}
    /\ vault' = loadVault(vault, file, masterSeed, t)
    /\ now' = IF file.kind = "absent" \/ CanDecrypt(file, masterSeed) THEN now ELSE t
    /\ base' = vault'
    /\ oplog' = <<>>
    /\ last' = Outcome("load", [NoArg EXCEPT !.title = Found(file, masterSeed)], "ok", vault)
    /\ UNCHANGED <<file, nextId, tasks, issued, clean, serial, masterSeed, elsewhere>>

\* a new process: new VaultManager(seed) over whatever is at vaultPath
Construct(seed, t) ==
    /\ tasks = {}
    /\ masterSeed' = seed
    /\ vault' = constructor(file, seed, t)
    /\ now' = t
    /\ base' = vault'
    /\ oplog' = <<>>
    /\ last' = Outcome("construct", [NoArg EXCEPT !.title = Found(file, seed)], "ok", vault)
    /\ UNCHANGED <<file, nextId, tasks, issued, clean, serial, elsewhere>>

\* the vault file is removed while no write is under way
FileRemoved ==
    /\ tasks = {}
    /\ file.kind # "absent"
    /\ file' = NoFile
    /\ UNCHANGED <<vault, now, nextId, tasks, issued, base, oplog, last, clean,
                   serial, masterSeed, elsewhere>>

\* the vault file is overwritten with bytes that are no vault
FileDamaged ==
    /\ tasks = {}
    /\ file.kind # "partial"
    /\ file' = PartialFile
    /\ UNCHANGED <<vault, now, nextId, tasks, issued, base, oplog, last, clean,
                   serial, masterSeed, elsewhere>>

----------------------------------------------------------------------------
(* VaultEncryption in detail: key derivation, deflate, ChaCha20-Poly1305   *)
(*                                                                         *)
(* Byte strings are represented by how they were made.  HMAC, the stream   *)
(* cipher and Poly1305 are modelled as injective: two keys, ciphertexts or *)
(* tags are equal only if they were made from the same parts.  A buffer    *)
(* with one bit flipped carries flip = 1; flipping the bit back restores   *)
(* it.                                                                     *)

NONCE_LENGTH == 12
TAG_LENGTH == 16

Seeds == {"seed1", "seed2"}
Nonces == {"n1", "n2"}

VaultCorrupt == "Failed to decrypt vault: invalid key or corrupted data"

\* DomainDerivation.deriveKey(masterSeed, KeyDomain.VAULT_ENCRYPT, 0, 32)
deriveKey(seed) == [domain |-> "keyforge:vault:encrypt:v1:0:32", seed |-> seed]

\* mutation: the payload is stored without deflating it
compressStored(serialized) == [form |-> "stored", of |-> serialized]

\* deflateSync(Buffer.from(data, 'utf8'))
compress(serialized) == [form |-> "deflate", of |-> serialized]

\* cipher.encrypt(compressed) split into ciphertext and tag
Ciphertext(key, nonce, plain) ==
    [key |-> key, nonce |-> nonce, plain |-> plain, flip |-> 0]

Poly1305(key, nonce, ct) ==
    [key |-> key, nonce |-> nonce, over |-> ct, flip |-> 0, len |-> TAG_LENGTH]

\* the { encrypted, nonce, tag } a holder of the key makes of a payload
SealBytes(plain, seed, nonce) ==
    LET key == deriveKey(seed)
        ct == Ciphertext(key, nonce, plain)
    IN [ encrypted |-> ct,
         nonce     |-> [bytes |-> nonce, flip |-> 0, len |-> NONCE_LENGTH],
         tag       |-> Poly1305(key, nonce, ct) ]

VaultEncryption_encryptWithNonce(data, seed, nonce) ==
    SealBytes(compress([form |-> "json", of |-> Stringify(data)]), seed, nonce)

\* mutation: the error that was caught is thrown again as it is
FailureRethrown(cause) ==
    [kind |-> "error", error |-> cause, cause |-> cause, value |-> <<>>]

\* the catch block: whatever was thrown, the caller gets the one Error
Failure(cause) ==
    [kind |-> "error", error |-> VaultCorrupt, cause |-> cause, value |-> <<>>]

\* VaultEncryption.decrypt: everything thrown inside the try block is
\* replaced by the one Error
VaultEncryption_decrypt(encrypted, nonce, tag, seed) ==
    LET key == deriveKey(seed)
        \* the tag is the one Poly1305 gives for this key, nonce and ciphertext
        genuine == /\ tag.flip = 0
                   /\ tag.len = TAG_LENGTH
                   /\ tag.key = key
                   /\ nonce.flip = 0
                   /\ tag.nonce = nonce.bytes
                   /\ tag.over = encrypted
        \* the key stream removes what the same key and nonce put on
        plain == IF encrypted.flip = 0 /\ encrypted.key = key
                    /\ encrypted.nonce = nonce.bytes
                 THEN encrypted.plain
                 ELSE [form |-> "noise", of |-> [form |-> "noise", of |-> <<>>]]
    IN IF nonce.len # NONCE_LENGTH THEN Failure("length")
       ELSE IF ~genuine THEN Failure("tag")
       ELSE IF plain.form # "deflate" THEN Failure("inflate")
       ELSE IF plain.of.form # "json" THEN Failure("parse")
       ELSE [kind |-> "value", error |-> "", cause |-> "", value |-> <<Parse(plain.of.of)>>]

\* vaults the manager can hold, built with its own method bodies
SampleVault0 == initializeVault(0)
SampleVault1 == addWalletBody(SampleVault0, 1, "personal", Undefined, 1)
SampleVault2 == addPasswordBody(SampleVault1, 2, "a.com", "alice", "pw1", 1)
SampleVault3 ==
    updatePasswordBody(SampleVault2, 1,
                       [site |-> Absent, password |-> "pw2", username |-> Absent], 1)
SampleVault4 ==
    addNoteBody(addGPGKeyBody(SampleVault3, 3, "personal", 1, 1), 4, "t1", 1)
SampleVaults == {SampleVault0, SampleVault1, SampleVault2, SampleVault3, SampleVault4}

\* payloads a holder of the key can seal that are no deflated JSON
BadPayloads ==
    { [form |-> "stored", of |-> [form |-> "json", of |-> <<>>]],
      compress([form |-> "text", of |-> <<>>]) }

Box(input, seed, parts) ==
    [kind |-> "box", input |-> input, seed |-> seed, made |-> parts, parts |-> parts]

\* VaultEncryption.encrypt: encryptWithNonce with randomBytes(12)
Encrypt(v, seed, nonce) ==
    /\ sealed' = Box(<<v>>, seed, VaultEncryption_encryptWithNonce(v, seed, nonce))
    /\ opened' = NoBox
    /\ UNCHANGED <<vaultVars, sessionVars, cliVars, restVars>>

\* a holder of the key seals something that is no vault
SealOther(plain, seed, nonce) ==
    /\ sealed' = Box(<<>>, seed, SealBytes(plain, seed, nonce))
    /\ opened' = NoBox
    /\ UNCHANGED <<vaultVars, sessionVars, cliVars, restVars>>

\* one bit of the ciphertext, the nonce or the tag is flipped
FlipBit(part) ==
    /\ sealed.kind = "box"
    /\ sealed' = [sealed EXCEPT !.parts[part].flip = 1 - @]
    /\ opened' = NoBox
    /\ UNCHANGED <<vaultVars, sessionVars, cliVars, restVars>>

\* the nonce or the tag loses its last byte
Truncate(part) ==
    /\ sealed.kind = "box"
    /\ sealed.parts[part].len = sealed.made[part].len
    /\ sealed' = [sealed EXCEPT !.parts[part].len = @ - 1]
    /\ opened' = NoBox
    /\ UNCHANGED <<vaultVars, sessionVars, cliVars, restVars>>

Decrypt(seed) ==
    /\ sealed.kind = "box"
    /\ opened' = [ seed |-> seed,
                   result |-> VaultEncryption_decrypt(sealed.parts.encrypted,
                                                      sealed.parts.nonce,
                                                      sealed.parts.tag, seed) ]
    /\ UNCHANGED <<sealed, vaultVars, sessionVars, cliVars, restVars>>

----------------------------------------------------------------------------
(* ExportCommand and ImportCommand                                         *)
(*                                                                         *)
(* A command runs in its own process: it constructs a VaultManager over    *)
(* the vault file, works on it with every call awaited, and ends.  All the *)
(* clock readings of one command are taken as the same reading t, and its  *)
(* writes complete.                                                        *)

MaxCommands == 2

Formats == {"json", "encrypted", "backup"}

NoCommand ==
    [ op |-> "none", n |-> 0, format |-> "", merge |-> FALSE, dryRun |-> FALSE,
      result |-> "", source |-> NoFile,
      fileBefore |-> NoFile, fileAfter |-> NoFile,
      vaultBefore |-> <<>>, vaultAfter |-> <<>> ]

\* save() with every await completing at once
saveBody(v, t) ==
    [[v EXCEPT !.checksum = calculateChecksum(v)] EXCEPT !.updated = t]

\* sync(): stamp, digest, save(), then note the local backup in memory
syncBody(v, t) ==
    LET v1 == [v EXCEPT !.updated = t]
        v2 == [v1 EXCEPT !.checksum = calculateChecksum(v1)]
    IN saveBody(v2, t)

\* filterVaultData without include / exclude: JSON.parse(JSON.stringify(vault))
filterVaultData(v) == Parse(Stringify(v))

\* the three export containers; the encrypted ones are sealed with the seed
exportContainer(v, format, seed) ==
    [ kind |-> "export", format |-> format,
      key |-> IF format = "json" THEN "" ELSE seed,
      data |-> <<filterVaultData(v)>> ]

\* ImportCommand.detectFormat
detectFormat(x) ==
    IF x.kind # "export" THEN "json"
    ELSE IF x.format = "encrypted" THEN "encrypted"
    ELSE IF x.format = "backup" THEN "backup"
    ELSE "json"

\* what importJSON makes of a container that has no "vault" property: the
\* container itself, in which every list the importer looks for is missing
NoLists ==
    [ ssh |-> <<>>, gpg |-> <<>>, wallets |-> <<>>, totp |-> <<>>,
      passwords |-> <<>>, notes |-> <<>> ]

\* importJSON / importEncrypted / importBackup: <<data>>, or <<>> when the
\* parser throws
importData(x, format, seed) ==
    IF x.kind # "export" THEN <<>>
    ELSE CASE format = "json" ->
                 IF x.format = "json" THEN <<x.data[1]>> ELSE <<NoLists>>
           [] format \in {"encrypted", "backup"} ->
                 IF x.format = format /\ x.key = seed
                 THEN <<x.data[1]>>
                 ELSE <<>>
           [] OTHER -> <<>>

Tagged(kind, recs) == [i \in 1..Len(recs) |-> [kind |-> kind, rec |-> recs[i]]]

\* the order in which mergeVault and replaceVault walk the import data;
\* neither looks at config.services.gpg
ImportItems(d) ==
    Tagged("ssh", d.ssh) \o Tagged("wallet", d.wallets) \o Tagged("totp", d.totp)
        \o Tagged("password", d.passwords) \o Tagged("note", d.notes)

\* the "exists" test of mergeVault, made against the live vault
Exists(v, it) ==
    CASE it.kind = "ssh" ->
            \E i \in 1..Len(v.ssh) : v.ssh[i].hostname = it.rec.hostname
      [] it.kind = "wallet" ->
            \E i \in 1..Len(v.wallets) : v.wallets[i].service = it.rec.service
      [] it.kind = "totp" ->
            \E i \in 1..Len(v.totp) : v.totp[i].service = it.rec.service
      [] it.kind = "password" ->
            \E i \in 1..Len(v.passwords) : v.passwords[i].site = it.rec.site
      [] it.kind = "note" ->
            \E i \in 1..Len(v.notes) : v.notes[i].title = it.rec.title

\* the add call made for one item; a property the JSON lacks reads as undefined
AddItem(v, it, id, t) ==
    CASE it.kind = "ssh" -> addSSHBody(v, id, it.rec.hostname, t)
      [] it.kind = "wallet" ->
            addWalletBody(v, id, it.rec.service,
                          IF it.rec.xpub = Absent THEN Undefined ELSE it.rec.xpub, t)
      [] it.kind = "totp" -> addTOTPBody(v, id, it.rec.service, t)
      [] it.kind = "password" ->
            addPasswordBody(v, id, it.rec.site, it.rec.username, it.rec.password, t)
      [] it.kind = "note" -> addNoteBody(v, id, it.rec.title, t)

\* the loops of mergeVault (merge) and replaceVault: <<vault, ids used>>
RECURSIVE ImportAll(_, _, _, _, _)
ImportAll(v, items, id, t, merge) ==
    IF items = <<>> THEN <<v, id>>
    ELSE IF merge /\ Exists(v, Head(items))
         THEN ImportAll(v, Tail(items), id, t, merge)
         ELSE ImportAll(saveBody(AddItem(v, Head(items), id + 1, t), t),
                        Tail(items), id + 1, t, merge)

\* mutation: merge mode clears the vault first, as replace mode does
mergeVaultCleared(v, d, id, t) ==
    LET r == ImportAll(saveBody(initializeVault(t), t), ImportItems(d), id, t, FALSE)
    IN <<syncBody(r[1], t), r[2]>>

mergeVault(v, d, id, t) ==
    LET r == ImportAll(v, ImportItems(d), id, t, TRUE)
    IN <<syncBody(r[1], t), r[2]>>

replaceVault(v, d, id, t) ==
    LET r == ImportAll(saveBody(initializeVault(t), t), ImportItems(d), id, t, FALSE)
    IN <<syncBody(r[1], t), r[2]>>

Ran(op, format, merge, dryRun, result, v0, v1, f1) ==
    [ op |-> op, n |-> cli.n + 1, format |-> format, merge |-> merge,
      dryRun |-> dryRun, result |-> result, source |-> exportFile,
      fileBefore |-> file, fileAfter |-> f1,
      vaultBefore |-> <<v0>>, vaultAfter |-> <<v1>> ]

CommandStarts ==
    /\ tasks = {}
    /\ cli.n < MaxCommands

\* ExportCommand.execute without filters
Export(format, t) ==
    /\ CommandStarts
    /\ LET v0 == constructor(file, masterSeed, t)
       IN /\ vault' = v0
          /\ exportFile' = exportContainer(v0, format, masterSeed)
          /\ cli' = Ran("export", format, FALSE, FALSE, "ok", v0, v0, file)
    /\ now' = t
    /\ base' = vault'
    /\ oplog' = <<>>
    /\ UNCHANGED <<file, nextId, tasks, issued, last, clean, serial, masterSeed,
                   cryptoVars, sessionVars, restVars>>

\* mutation: the dry-run option is not looked at
ImportIgnoringDryRun(option, merge, dryRun, t) ==
    /\ CommandStarts
    /\ exportFile.kind = "export"
    /\ LET v0 == constructor(file, masterSeed, t)
           format == IF option = "auto" THEN detectFormat(exportFile) ELSE option
           d == importData(exportFile, format, masterSeed)
           r == IF merge THEN mergeVault(v0, d[1], nextId, t)
                ELSE replaceVault(v0, d[1], nextId, t)
       IN /\ d # <<>>
          /\ file' = encrypt(r[1], masterSeed)
          /\ vault' = [r[1] EXCEPT !.backups = @ \cup {"ipfs"}]
          /\ nextId' = r[2]
          /\ cli' = Ran("import", format, merge, dryRun, "ok", v0, vault', file')
    /\ now' = t
    /\ base' = vault'
    /\ oplog' = <<>>
    /\ UNCHANGED <<exportFile, tasks, issued, last, clean, serial, masterSeed,
                   cryptoVars, sessionVars, restVars>>

\* ImportCommand.execute
Import(option, merge, dryRun, t) ==
    /\ CommandStarts
    /\ exportFile.kind = "export"
    /\ LET v0 == constructor(file, masterSeed, t)
           format == IF option = "auto" THEN detectFormat(exportFile) ELSE option
           d == importData(exportFile, format, masterSeed)
           r == IF merge THEN mergeVault(v0, d[1], nextId, t)
                ELSE replaceVault(v0, d[1], nextId, t)
       IN IF d = <<>> \/ dryRun
          THEN /\ vault' = v0
               /\ cli' = Ran("import", format, merge, dryRun,
                             IF d = <<>> THEN "failed" ELSE "dry", v0, v0, file)
               /\ UNCHANGED <<file, nextId>>
          ELSE /\ file' = encrypt(r[1], masterSeed)
               /\ vault' = [r[1] EXCEPT !.backups = @ \cup {"ipfs"}]
               /\ nextId' = r[2]
               /\ cli' = Ran("import", format, merge, dryRun, "ok", v0, vault', file')
    /\ now' = t
    /\ base' = vault'
    /\ oplog' = <<>>
    /\ UNCHANGED <<exportFile, tasks, issued, last, clean, serial, masterSeed,
                   cryptoVars, sessionVars, restVars>>

\* the export file is missing: "Import file not found", before anything is built
ImportNotFound(option, merge, dryRun) ==
    /\ CommandStarts
    /\ exportFile.kind # "export"
    /\ cli' = [ op |-> "import", n |-> cli.n + 1, format |-> option, merge |-> merge,
                dryRun |-> dryRun, result |-> "NotFound", source |-> exportFile,
                fileBefore |-> file, fileAfter |-> file,
                vaultBefore |-> <<>>, vaultAfter |-> <<>> ]
    /\ UNCHANGED <<vaultVars, exportFile, cryptoVars, sessionVars, restVars>>

----------------------------------------------------------------------------
(* SessionManager                                                          *)
(*                                                                         *)
(* Time is counted in units of half the timeout.  A timer that is due runs *)
(* before time moves on: the event loop is taken not to be blocked.        *)

MaxClock == 5

\* TIMEOUT_MS = 5 * 60 * 1000, in units of 150 s
TIMEOUT_MS == 2

Passphrases == {"p1", "p2"}

\* MasterDerivation.deriveMasterSeed
deriveMasterSeed(passphrase) == IF passphrase = "p1" THEN "seed1" ELSE "seed2"

\* the handle setTimeout returns: one no pending timer has
FreeHandle(timers) ==
    CHOOSE n \in 1..(Cardinality(timers) + 1) : \A tm \in timers : tm.id # n

clearTimeout(timers, handle) == {tm \in timers : tm.id # handle}

\* mutation: the timer armed earlier is left pending
resetTimeoutKeepingOld(s, clk) ==
    LET h == FreeHandle(s.timers)
    IN [s EXCEPT !.timers = @ \cup {[id |-> h, due |-> clk + TIMEOUT_MS]},
                 !.sessionTimeout = h]

\* SessionManager.resetTimeout
resetTimeout(s, clk) ==
    LET pending == IF s.sessionTimeout # 0
                   THEN clearTimeout(s.timers, s.sessionTimeout)
                   ELSE s.timers
        h == FreeHandle(pending)
    IN [s EXCEPT !.timers = pending \cup {[id |-> h, due |-> clk + TIMEOUT_MS]},
                 !.sessionTimeout = h]

\* mutation: the timer handle is dropped but the seed stays cached
clearTimerOnly(s) ==
    [s EXCEPT !.timers = clearTimeout(@, s.sessionTimeout), !.sessionTimeout = 0]

\* SessionManager.clear
clear(s) ==
    [s EXCEPT !.masterSeed = Undefined,
              !.timers = clearTimeout(@, s.sessionTimeout),
              !.sessionTimeout = 0]

\* initialize() up to "await MasterDerivation.deriveMasterSeed(...)"
InitializeBegin(passphrase) ==
    /\ passphrase \notin session.deriving
    /\ session' = [session EXCEPT !.deriving = @ \cup {passphrase}]
    /\ UNCHANGED <<clock, vaultVars, cryptoVars, cliVars>>

\* initialize() after the await: cache the seed and arm the timer
InitializeEnd(passphrase) ==
    /\ passphrase \in session.deriving
    /\ session' = [resetTimeout([session EXCEPT
                                    !.masterSeed = deriveMasterSeed(passphrase)],
                                clock)
                      EXCEPT !.deriving = @ \ {passphrase},
                             !.since = clock, !.accessed = clock]
    /\ UNCHANGED <<clock, vaultVars, cryptoVars, cliVars>>

\* SessionManager.getMasterSeed
GetMasterSeed ==
    /\ session' = IF session.masterSeed # Undefined
                  THEN [resetTimeout(session, clock)
                           EXCEPT !.accessed = clock, !.got = session.masterSeed]
                  ELSE [session EXCEPT !.got = "null"]
    /\ UNCHANGED <<clock, vaultVars, cryptoVars, cliVars>>

\* SessionManager.clear() called by the program
ClearSession ==
    /\ session.masterSeed # Undefined
    /\ session' = clear(session)
    /\ UNCHANGED <<clock, vaultVars, cryptoVars, cliVars>>

\* the callback of a timer that is due: "Session expired", this.clear()
TimerFires(tm) ==
    /\ tm \in session.timers
    /\ tm.due <= clock
    /\ session' = [clear([session EXCEPT !.timers = @ \ {tm}])
                      EXCEPT !.expired = IF session.masterSeed # Undefined
                                         THEN clock - session.accessed
                                         ELSE @]
    /\ UNCHANGED <<clock, vaultVars, cryptoVars, cliVars>>

\* time passes while no timer is due
Tick ==
    /\ clock < MaxClock
    /\ \A tm \in session.timers : tm.due > clock
    /\ clock' = clock + 1
    /\ UNCHANGED <<session, vaultVars, cryptoVars, cliVars>>

----------------------------------------------------------------------------
(* Specifications *)

InitCommon ==
    /\ now = 0
    /\ vault = initializeVault(0)
    /\ file = NoFile
    /\ nextId = 0
    /\ tasks = {}
    /\ issued = 0
    /\ base = initializeVault(0)
    /\ oplog = <<>>
    /\ last = Outcome("construct", [NoArg EXCEPT !.title = "missing"], "ok",
                      initializeVault(0))
    /\ clean = TRUE
    /\ masterSeed = MasterSeed

\* the parts of the program a specification does not exercise
CryptoIdle == sealed = NoBox /\ opened = NoBox
SessionIdle == session = NoSession /\ clock = 0
CliIdle == exportFile = NoFile /\ cli = NoCommand
HeapIdle == heap = <<>> /\ held = 0 /\ seedRef = 0 /\ exited = ""
KdfIdle == kdf = NoCalls
ConfigIdle == config = NoConfig
InstancesIdle == instances = <<>>
RestIdle == HeapIdle /\ KdfIdle /\ ConfigIdle /\ InstancesIdle

Init == InitCommon /\ serial = TRUE /\ CryptoIdle /\ SessionIdle /\ CliIdle /\ RestIdle

InitConc ==
    InitCommon /\ serial = FALSE /\ CryptoIdle /\ SessionIdle /\ CliIdle /\ RestIdle

Next ==
    \/ \E s \in Sites, p \in {"pw1"}, t \in Later(now) : AddPassword(s, p, t)
    \/ \E s \in Sites, u \in PasswordPatches, t \in Later(now) : UpdatePassword(s, u, t)
    \/ \E s \in Sites, t \in Later(now) : DeletePassword(s, t)
    \/ \E t \in Later(now) : AddNote("t1", t)
    \/ \E i \in NoteIds, u \in NotePatches, t \in Later(now) : UpdateNote(i, u, t)
    \/ \E i \in NoteIds, t \in Later(now) : DeleteNote(i, t)
    \/ \E t \in Later(now) : AddSSHConfig(t)
    \/ \E t \in Later(now) : AddSSHKey(t)
    \/ \E t \in Later(now) : AddWalletConfig(t)
    \/ \E t \in Later(now) : AddWallet(t)
    \/ \E t1 \in Later(now) : \E t2 \in Later(t1) : AddGPGKey(t1, t2)
    \/ \E t \in Later(now) : AddTOTP(t)
    \/ \E t \in Later(now) : Clear(t)
    \/ \E k \in tasks, t \in Later(now) : SaveResume(k, t)
    \/ \E k \in tasks : WriteDone(k)
    \/ \E k \in tasks : WriteFail(k)
    \/ \E t \in Later(now) : Load(t)

Spec == Init /\ [][Next]_vars

SpecConc == InitConc /\ [][Next]_vars

\* the life of a vault file: managers come and go, with one seed or another
NextLife ==
    \/ \E s \in Sites, t \in Later(now) : AddPassword(s, "pw1", t)
    \/ \E s \in Sites, t \in Later(now) : DeletePassword(s, t)
    \/ \E t \in Later(now) : Clear(t)
    \/ \E k \in tasks, t \in Later(now) : SaveResume(k, t)
    \/ \E k \in tasks : WriteDone(k)
    \/ \E k \in tasks : WriteFail(k)
    \/ \E t \in Later(now) : Load(t)
    \/ \E s \in Seeds, t \in Later(now) : Construct(s, t)
    \/ FileRemoved
    \/ FileDamaged

SpecLife == Init /\ [][NextLife]_vars

\* the vault file holds a vault saved earlier, and an export made at some
\* earlier time, of that vault or another, may lie next to it
InitCli ==
    /\ \E v \in SampleVaults :
          /\ file \in {NoFile, encrypt(saveBody(v, 1), MasterSeed)}
          /\ vault = constructor(file, MasterSeed, 1)
    /\ exportFile \in {NoFile} \cup
          { exportContainer(saveBody(w, 1), f, s) :
                w \in {SampleVault0, SampleVault2, SampleVault4},
                f \in Formats, s \in Seeds }
    /\ cli = NoCommand
    /\ now = 1
    /\ nextId = 4
    /\ tasks = {}
    /\ issued = 0
    /\ base = vault
    /\ oplog = <<>>
    /\ last = Outcome("construct", [NoArg EXCEPT !.title = Found(file, MasterSeed)],
                      "ok", vault)
    /\ clean = TRUE
    /\ serial = TRUE
    /\ masterSeed = MasterSeed
    /\ CryptoIdle
    /\ SessionIdle
    /\ RestIdle

NextCli ==
    \/ \E f \in Formats, t \in Later(now) : Export(f, t)
    \/ \E o \in Formats \cup {"auto"}, m, d \in BOOLEAN, t \in Later(now) :
          Import(o, m, d, t)
    \/ \E o \in Formats \cup {"auto"}, m, d \in BOOLEAN : ImportNotFound(o, m, d)

SpecCli == InitCli /\ [][NextCli]_vars

VaultIdle == InitCommon /\ serial = TRUE

InitCrypto == VaultIdle /\ CryptoIdle /\ SessionIdle /\ CliIdle /\ RestIdle

NextCrypto ==
    \/ \E v \in SampleVaults, s \in Seeds, n \in Nonces : Encrypt(v, s, n)
    \/ \E b \in BadPayloads, s \in Seeds, n \in Nonces : SealOther(b, s, n)
    \/ \E part \in {"encrypted", "nonce", "tag"} : FlipBit(part)
    \/ \E part \in {"nonce", "tag"} : Truncate(part)
    \/ \E s \in Seeds : Decrypt(s)

SpecCrypto == InitCrypto /\ [][NextCrypto]_vars

InitSession == VaultIdle /\ CryptoIdle /\ SessionIdle /\ CliIdle /\ RestIdle

\* the session manager on its own: no seed buffer is looked at
NextSession ==
    \/ \E p \in Passphrases : InitializeBegin(p) /\ UNCHANGED restVars
    \/ \E p \in Passphrases : InitializeEnd(p) /\ UNCHANGED restVars
    \/ GetMasterSeed /\ UNCHANGED restVars
    \/ ClearSession /\ UNCHANGED restVars
    \/ \E tm \in session.timers : TimerFires(tm) /\ UNCHANGED restVars
    \/ Tick /\ UNCHANGED restVars

SpecSession == InitSession /\ [][NextSession]_vars

----------------------------------------------------------------------------
(* The master seed as a Buffer                                             *)
(*                                                                         *)
(* deriveMasterSeed returns a new Buffer; SessionManager keeps a reference *)
(* to it, getMasterSeed hands the same reference out, and VaultManager     *)
(* stores the reference it is given.  clear() overwrites the Buffer in     *)
(* place.  A Buffer nobody refers to any more keeps its bytes.             *)

MaxBuffers == 2

\* a Buffer after fill(0)
Zeros == "zero"

\* the Buffer deriveMasterSeed returns
Allocate(h, seed) == Append(h, [derived |-> seed, bytes |-> seed])

\* crypto.getRandomValues(buf) then buf.fill(0), or fill(0) alone in the catch
Wipe(h, b) == IF b = 0 THEN h ELSE [h EXCEPT ![b].bytes = Zeros]

Running == exited = ""

\* initialize() up to the await, in a process that holds seed Buffers
SeedInitializeBegin(passphrase) ==
    /\ Running
    /\ Len(heap) + Cardinality(session.deriving) < MaxBuffers
    /\ InitializeBegin(passphrase)
    /\ UNCHANGED restVars

\* "this.masterSeed = masterSeed": the reference held before is dropped as it is
SeedInitializeEnd(passphrase) ==
    /\ Running
    /\ InitializeEnd(passphrase)
    /\ heap' = Allocate(heap, deriveMasterSeed(passphrase))
    /\ held' = Len(heap) + 1
    /\ UNCHANGED <<seedRef, exited, libVars>>

\* the "clear" command of the interactive mode
SeedClear ==
    /\ Running
    /\ ClearSession
    /\ heap' = Wipe(heap, held)
    /\ held' = 0
    /\ UNCHANGED <<seedRef, exited, libVars>>

SeedTimerFires(tm) ==
    /\ Running
    /\ TimerFires(tm)
    /\ heap' = Wipe(heap, held)
    /\ held' = 0
    /\ UNCHANGED <<seedRef, exited, libVars>>

SeedTick == Running /\ Tick /\ UNCHANGED restVars

\* process.on("exit" | "SIGINT" | "SIGTERM"): SessionManager.clear(), and
\* process.exit for the two signals
ProcessEnds(event) ==
    /\ Running
    /\ exited' = event
    /\ session' = clear(session)
    /\ heap' = Wipe(heap, held)
    /\ held' = 0
    /\ UNCHANGED <<clock, seedRef, libVars, vaultVars, cryptoVars, cliVars>>

\* a command starts: "await SessionManager.getMasterSeed()", and with the
\* Buffer it returns "new VaultManager(masterSeed)"
NewVaultManager(t) ==
    /\ Running
    /\ held # 0
    /\ seedRef = 0
    /\ session' = [resetTimeout(session, clock)
                      EXCEPT !.accessed = clock, !.got = session.masterSeed]
    /\ seedRef' = held
    /\ masterSeed' = heap[held].bytes
    /\ vault' = constructor(file, heap[held].bytes, t)
    /\ now' = t
    /\ base' = vault'
    /\ oplog' = <<>>
    /\ last' = Outcome("construct",
                       [NoArg EXCEPT !.title = Found(file, heap[held].bytes)],
                       "ok", vault)
    /\ UNCHANGED <<file, nextId, tasks, issued, clean, serial, clock,
                   heap, held, exited, libVars, cryptoVars, cliVars>>

\* vaultManager.addPassword(...) of that command, awaited: save() derives the
\* vault key from the bytes this.masterSeed holds when it runs
AddPasswordHeld(site, t) ==
    /\ Running
    /\ seedRef # 0
    /\ issued < MaxOps
    /\ LET v2 == saveBody(addPasswordBody(vault, nextId + 1, site, "alice", "pw1", t), t)
       IN /\ vault' = v2
          /\ file' = encrypt(v2, heap[seedRef].bytes)
    /\ nextId' = nextId + 1
    /\ issued' = issued + 1
    /\ now' = t
    /\ oplog' = Append(oplog, [op |-> "addPassword",
                               arg |-> [NoArg EXCEPT !.site = site, !.password = "pw1"],
                               id |-> nextId + 1, t |-> t])
    /\ last' = Outcome("addPassword",
                       [NoArg EXCEPT !.site = site, !.password = "pw1"], "ok", vault)
    /\ UNCHANGED <<tasks, base, clean, serial, masterSeed, elsewhere>>

InitSeed == VaultIdle /\ CryptoIdle /\ SessionIdle /\ CliIdle /\ RestIdle

NextSeed ==
    \/ \E p \in Passphrases : SeedInitializeBegin(p)
    \/ \E p \in Passphrases : SeedInitializeEnd(p)
    \/ SeedClear
    \/ \E tm \in session.timers : SeedTimerFires(tm)
    \/ SeedTick
    \/ \E e \in {"exit", "SIGINT", "SIGTERM"} : ProcessEnds(e)
    \/ \E t \in Later(now) : NewVaultManager(t)
    \/ \E s \in Sites, t \in Later(now) : AddPasswordHeld(s, t)

SpecSeed == InitSeed /\ [][NextSeed]_vars

----------------------------------------------------------------------------
(* MasterDerivation and DomainDerivation                                   *)
(*                                                                         *)
(* Digests are kept symbolic: a digest is the record of what was hashed,   *)
(* so two digests are equal exactly when their inputs are.  A Buffer made  *)
(* of digests is the sequence of its 64-byte parts and its length.         *)

MaxCalls == 3
MaxKeyLength == 16400

hashLen == 64
MaxBlocks == 255

Usernames == {Undefined, "", "default", "Default", "keyforge"}
Versions == {<<>>, <<1>>, <<2>>}
KeyDomains == {"keyforge:ssh:v1", "keyforge:vault:encrypt:v1"}
Indexes == {0, 1}
ShortKeyLengths == {32, 64, 65, 128}

\* String.prototype.toLowerCase on the labels in use
toLowerCase(u) == IF u = "Default" THEN "default" ELSE u

\* MasterDerivation.hash: SHA-256 of the joined salt components
hash(input) == [sha256 |-> input]

\* MasterDerivation.scryptKdf: PBKDF2-HMAC-SHA512, 500000 iterations, 64 bytes
scryptKdf(passphrase, salt) == [pbkdf2 |-> passphrase, salt |-> salt]

\* MasterDerivation.deriveMasterSeed; a parameter left out takes its default
MasterDerivation_deriveMasterSeed(params) ==
    LET username == IF params.username = Undefined THEN "default" ELSE params.username
        version  == IF params.version = <<>> THEN 1 ELSE params.version[1]
    IN scryptKdf(params.passphrase,
                 hash(<<"keyforge", toLowerCase(username), version>>))

\* SessionManager.initialize: the seed it derives and caches
SessionManager_initialize(passphrase, username) ==
    MasterDerivation_deriveMasterSeed(
        [ passphrase |-> passphrase,
          username   |-> IF Truthy(username) THEN username ELSE "keyforge",
          version    |-> <<1>> ])

\* createHmac("sha512", key) over the previous block t (named by its place
\* in the chain, 0 for none), the info string and the counter byte (0 for none)
createHmac(key, t, info, counter) ==
    [key |-> key, t |-> t, info |-> info, counter |-> counter]

\* buf.subarray(0, end) for 0 <= end
subarray(buf, end) == [buf EXCEPT !.length = Min(end, @)]

BadLength == [status |-> "BadLength", parts |-> <<>>, length |-> 0]

\* mutation: the concatenated blocks are returned whole
expandKeyWhole(prk, info, keyLength) ==
    LET n == (keyLength + hashLen - 1) \div hashLen
    IN IF n > MaxBlocks THEN BadLength
       ELSE [ status |-> "ok",
              parts  |-> [i \in 1..n |-> createHmac(prk, i - 1, info, i % 256)],
              length |-> n * hashLen ]

\* DomainDerivation.expandKey
expandKey(prk, info, keyLength) ==
    LET n == (keyLength + hashLen - 1) \div hashLen
    IN IF n > MaxBlocks THEN BadLength
       ELSE subarray([ status |-> "ok",
                       parts  |-> [i \in 1..n |->
                                      createHmac(prk, i - 1, info, i % 256)],
                       length |-> n * hashLen ],
                     keyLength)

\* the first HMAC of deriveKey: the master seed under the key "keyforge-expand"
extract(seed) == [key |-> "keyforge-expand", seed |-> seed]

\* mutation: the PRK of the previous deriveKey call is used again
DomainDerivation_deriveKeyCached(seed, domain, index, keyLength) ==
    LET prk == IF kdf.cur.fn = "deriveKey"
               THEN extract(kdf.cur.args.masterSeed)
               ELSE extract(seed)
        info == <<domain, index, keyLength>>
        okm == [ status |-> "ok", parts |-> <<createHmac(prk, 0, info, 0)>>,
                 length |-> hashLen ]
    IN IF keyLength <= okm.length
       THEN subarray(okm, keyLength)
       ELSE expandKey(prk, info, keyLength)

\* DomainDerivation.deriveKey
DomainDerivation_deriveKey(seed, domain, index, keyLength) ==
    LET prk == extract(seed)
        info == <<domain, index, keyLength>>
        okm == [ status |-> "ok", parts |-> <<createHmac(prk, 0, info, 0)>>,
                 length |-> hashLen ]
    IN IF keyLength <= okm.length
       THEN subarray(okm, keyLength)
       ELSE expandKey(prk, info, keyLength)

\* the master seeds the domain keys are derived from
SampleSeeds ==
    { MasterDerivation_deriveMasterSeed(
          [passphrase |-> p, username |-> Undefined, version |-> <<>>]) :
      p \in Passphrases }

SampleSeed == CHOOSE s \in SampleSeeds : s.pbkdf2 = "p1"

\* a call returns; kept is some earlier call, remembered for comparison
Called(fn, args, out) ==
    /\ \E keep \in BOOLEAN :
          kdf' = [ kept |-> IF keep /\ kdf.n > 0 THEN kdf.kept ELSE kdf.cur,
                   cur  |-> [fn |-> fn, args |-> args, out |-> <<out>>],
                   n    |-> kdf.n + 1 ]
    /\ UNCHANGED <<config, instances, heapVars, vaultVars, cryptoVars,
                   sessionVars, cliVars>>

DeriveMasterSeed(passphrase, username, version) ==
    LET params == [passphrase |-> passphrase, username |-> username,
                   version |-> version]
    IN /\ kdf.n < MaxCalls
       /\ Called("deriveMasterSeed", params, MasterDerivation_deriveMasterSeed(params))

\* SessionManager.initialize(passphrase, username), as far as the seed goes
Initialize(passphrase, username) ==
    /\ kdf.n < MaxCalls
    /\ Called("initialize",
              [passphrase |-> passphrase, username |-> username, version |-> <<>>],
              SessionManager_initialize(passphrase, username))

DeriveKey(seed, domain, index, keyLength) ==
    /\ kdf.n < MaxCalls
    /\ Called("deriveKey",
              [masterSeed |-> seed, domain |-> domain, index |-> index,
               keyLength |-> keyLength],
              DomainDerivation_deriveKey(seed, domain, index, keyLength))

InitDerive == VaultIdle /\ CryptoIdle /\ SessionIdle /\ CliIdle /\ RestIdle

NextDerive ==
    \/ \E p \in Passphrases, u \in Usernames, v \in Versions : DeriveMasterSeed(p, u, v)
    \/ \E p \in Passphrases, u \in Usernames : Initialize(p, u)
    \/ \E s \in SampleSeeds, d \in KeyDomains, i \in Indexes, len \in ShortKeyLengths :
          DeriveKey(s, d, i, len)

SpecDerive == InitDerive /\ [][NextDerive]_vars

\* deriveKey is about to be called with a key length between 0 and the bound
InitExpand ==
    /\ VaultIdle /\ CryptoIdle /\ SessionIdle /\ CliIdle /\ HeapIdle
    /\ ConfigIdle /\ InstancesIdle
    /\ \E len \in 0..MaxKeyLength :
          kdf = [ kept |-> NoCall,
                  cur  |-> [ fn |-> "deriveKey",
                             args |-> [masterSeed |-> SampleSeed,
                                       domain |-> "keyforge:ssh:v1", index |-> 0,
                                       keyLength |-> len],
                             out |-> <<>> ],
                  n |-> 0 ]

\* the call returns or throws
DeriveKeyReturns ==
    /\ kdf.cur.fn = "deriveKey"
    /\ kdf.cur.out = <<>>
    /\ kdf' = [kdf EXCEPT !.cur.out =
                  << DomainDerivation_deriveKey(kdf.cur.args.masterSeed,
                                                kdf.cur.args.domain,
                                                kdf.cur.args.index,
                                                kdf.cur.args.keyLength) >>,
                          !.n = 1]
    /\ UNCHANGED <<config, instances, heapVars, vaultVars, cryptoVars,
                   sessionVars, cliVars>>

NextExpand == DeriveKeyReturns

SpecExpand == InitExpand /\ [][NextExpand]_vars

----------------------------------------------------------------------------
(* TOTPCommand: each run is a command of its own over the vault file       *)

Services == {"github", "gitlab", "aws"}

\* how many TOTP entries of the vault are for the service
CountTOTP(v, service) ==
    Cardinality({i \in 1..Len(v.totp) : v.totp[i].service = service})

\* generateTOTPCode: the code is printed, then addTOTP is called and awaited;
\* what the command leaves in the manager's vault
generateTOTPCode(v, id, service, t) ==
    saveBody(addTOTPBody(v, id, service, t), t)

\* keyforge totp <service>
TotpGenerate(service, t) ==
    /\ CommandStarts
    /\ LET v0 == constructor(file, masterSeed, t)
           v1 == generateTOTPCode(v0, nextId + 1, service, t)
       IN /\ vault' = v1
          /\ file' = encrypt(v1, masterSeed)
          /\ nextId' = nextId + 1
          /\ cli' = Ran("totp", service, FALSE, FALSE, "ok", v0, v1, file')
    /\ now' = t
    /\ base' = vault'
    /\ oplog' = <<>>
    /\ UNCHANGED <<exportFile, tasks, issued, last, clean, serial, masterSeed,
                   cryptoVars, sessionVars, restVars>>

\* keyforge totp <service> --add: addTOTP with a random secret, then sync()
TotpAdd(service, t) ==
    /\ CommandStarts
    /\ LET v0 == constructor(file, masterSeed, t)
           v1 == syncBody(saveBody(addTOTPBody(v0, nextId + 1, service, t), t), t)
       IN /\ vault' = [v1 EXCEPT !.backups = @ \cup {"ipfs"}]
          /\ file' = encrypt(v1, masterSeed)
          /\ cli' = Ran("totp-add", service, FALSE, FALSE, "ok", v0, vault', file')
    /\ nextId' = nextId + 1
    /\ now' = t
    /\ base' = vault'
    /\ oplog' = <<>>
    /\ UNCHANGED <<exportFile, tasks, issued, last, clean, serial, masterSeed,
                   cryptoVars, sessionVars, restVars>>

\* the vault file holds a vault saved earlier, or there is none yet
InitSaved ==
    /\ \E v \in SampleVaults :
          /\ file \in {NoFile, encrypt(saveBody(v, 1), MasterSeed)}
          /\ vault = constructor(file, MasterSeed, 1)
    /\ now = 1
    /\ nextId = 4
    /\ tasks = {}
    /\ issued = 0
    /\ base = vault
    /\ oplog = <<>>
    /\ last = Outcome("construct", [NoArg EXCEPT !.title = Found(file, MasterSeed)],
                      "ok", vault)
    /\ clean = TRUE
    /\ serial = TRUE
    /\ masterSeed = MasterSeed
    /\ CryptoIdle /\ SessionIdle /\ CliIdle /\ RestIdle

NextTotp ==
    \/ \E s \in Services, t \in Later(now) : TotpGenerate(s, t)
    \/ \E s \in Services, t \in Later(now) : TotpAdd(s, t)

SpecTotp == InitSaved /\ [][NextTotp]_vars

----------------------------------------------------------------------------
(* ConfigManager                                                           *)
(*                                                                         *)
(* A configuration is an object whose properties refer to section objects. *)
(* Of each section one key is followed: defaults.username and network.tor. *)
(* objects[i] is the value that key has in section object i; objects 1 and *)
(* 2 are the sections of DEFAULT_CONFIG.                                   *)

MaxObjects == 4

Sections == {"defaults", "network"}

ConfigValues(section) ==
    IF section = "defaults" THEN {"keyforge", "alice", "bob"} ELSE {"false", "true"}

\* the literal DEFAULT_CONFIG as the module defines it
OriginalDefault(section) == IF section = "defaults" THEN "keyforge" ELSE "false"

\* DEFAULT_CONFIG: its sections are objects 1 and 2
DEFAULT_CONFIG == [defaults |-> 1, network |-> 2]

\* what a config.json may hold for the two keys: <<>> when the section is absent
UserConfigs ==
    [ defaults : {<<>>, <<"bob">>}, network : {<<>>, <<"true">>} ]

\* { ...DEFAULT_CONFIG }: a new top-level object over the same section objects
ShallowCopy(top) == top

\* mergeDeep(DEFAULT_CONFIG, userConfig): a section the file has becomes a new
\* object, every other property is copied by reference
mergeDeep(objs, userConfig) ==
    LET o1 == IF userConfig.defaults # <<>>
              THEN Append(objs, userConfig.defaults[1]) ELSE objs
        o2 == IF userConfig.network # <<>>
              THEN Append(o1, userConfig.network[1]) ELSE o1
    IN [ objects |-> o2,
         top |-> [ defaults |-> IF userConfig.defaults # <<>> THEN Len(o1)
                                ELSE DEFAULT_CONFIG.defaults,
                   network  |-> IF userConfig.network # <<>> THEN Len(o2)
                                ELSE DEFAULT_CONFIG.network ] ]

\* new ConfigManager(): loadConfig() over the file found, if any
loadConfig(found, userConfig) ==
    LET fresh == <<OriginalDefault("defaults"), OriginalDefault("network")>>
        m == mergeDeep(fresh, userConfig)
    IN [ built |-> TRUE,
         objects |-> IF found THEN m.objects ELSE fresh,
         config |-> IF found THEN m.top ELSE ShallowCopy(DEFAULT_CONFIG),
         lastOp |-> "load" ]

\* getValue("<section>.<key>")
getValue(c, section) == c.objects[c.config[section]]

\* setValue("<section>.<key>", value): the section object is written in place
setValue(c, section, value) ==
    [c EXCEPT !.objects[c.config[section]] = value, !.lastOp = "setValue"]

\* set(section, { key: value }): the section becomes a new object
set(c, section, value) ==
    [c EXCEPT !.objects = Append(@, value),
              !.config[section] = Len(c.objects) + 1,
              !.lastOp = "set"]

\* reset(): this.config = { ...DEFAULT_CONFIG }
reset(c) == [c EXCEPT !.config = ShallowCopy(DEFAULT_CONFIG), !.lastOp = "reset"]

ConfigStep(c) ==
    /\ config.built
    /\ config' = c
    /\ UNCHANGED <<kdf, instances, heapVars, vaultVars, cryptoVars,
                   sessionVars, cliVars>>

SetValue(section, value) == ConfigStep(setValue(config, section, value))

Set(section, value) ==
    /\ Len(config.objects) < MaxObjects
    /\ ConfigStep(set(config, section, value))

Reset == ConfigStep(reset(config))

\* ConfigManager.getInstance() has run: the file was absent or held a user
\* configuration
InitConfig ==
    /\ VaultIdle /\ CryptoIdle /\ SessionIdle /\ CliIdle /\ HeapIdle
    /\ KdfIdle /\ InstancesIdle
    /\ \E found \in BOOLEAN, u \in UserConfigs : config = loadConfig(found, u)

NextConfig ==
    \/ \E sec \in Sections : \E v \in ConfigValues(sec) : SetValue(sec, v)
    \/ \E sec \in Sections : \E v \in ConfigValues(sec) : Set(sec, v)
    \/ Reset

SpecConfig == InitConfig /\ [][NextConfig]_vars

----------------------------------------------------------------------------
(* Several commands at once, each with a VaultManager of its own           *)

Commands == {"c1", "c2", "c3"}

\* password add <site> of each command
CommandSite(c) ==
    IF c = "c1" THEN "concurrent1.com"
    ELSE IF c = "c2" THEN "concurrent2.com" ELSE "concurrent3.com"

NotStarted == [pc |-> "start", vault |-> <<>>, snap |-> NoFile]

\* "new VaultManager(masterSeed)": the command's own view of the vault file
CommandConstructs(c, t) ==
    /\ instances[c].pc = "start"
    /\ instances' = [instances EXCEPT ![c] =
                        [ pc |-> "built",
                          vault |-> <<constructor(file, masterSeed, t)>>,
                          snap |-> NoFile ]]
    /\ now' = t
    /\ UNCHANGED <<vault, file, nextId, tasks, issued, base, oplog, last, clean,
                   serial, masterSeed, cryptoVars, sessionVars, cliVars,
                   heapVars, kdf, config>>

\* vaultManager.addPassword(...) up to Bun.write: the entry is added to the
\* command's own vault, which is sealed and handed to Bun.write
CommandAdds(c, t) ==
    /\ instances[c].pc = "built"
    /\ LET v2 == saveBody(addPasswordBody(instances[c].vault[1], nextId + 1,
                                          CommandSite(c), "alice", "pw1", t), t)
       IN instances' = [instances EXCEPT ![c] =
                           [ pc |-> "writing", vault |-> <<v2>>,
                             snap |-> encrypt(v2, masterSeed) ]]
    /\ file' = PartialFile
    /\ nextId' = nextId + 1
    /\ now' = t
    /\ UNCHANGED <<vault, tasks, issued, base, oplog, last, clean, serial,
                   masterSeed, cryptoVars, sessionVars, cliVars, heapVars,
                   kdf, config>>

\* Bun.write completes: the file is what this command sealed
CommandWritten(c) ==
    /\ instances[c].pc = "writing"
    /\ file' = instances[c].snap
    /\ instances' = [instances EXCEPT ![c].pc = "done"]
    /\ UNCHANGED <<vault, now, nextId, tasks, issued, base, oplog, last, clean,
                   serial, masterSeed, cryptoVars, sessionVars, cliVars,
                   heapVars, kdf, config>>

InitMany ==
    /\ VaultIdle /\ CryptoIdle /\ SessionIdle /\ CliIdle /\ HeapIdle
    /\ KdfIdle /\ ConfigIdle
    /\ instances = [c \in Commands |-> NotStarted]

NextMany ==
    \/ \E c \in Commands, t \in Later(now) : CommandConstructs(c, t)
    \/ \E c \in Commands, t \in Later(now) : CommandAdds(c, t)
    \/ \E c \in Commands : CommandWritten(c)

SpecMany == InitMany /\ [][NextMany]_vars

----------------------------------------------------------------------------
(* VaultManager.sync                                                       *)

\* sync(), awaited: stamp and digest, save(), and after the save has
\* completed "this.vault.metadata.backups.ipfs = 'local'"
Sync(t) ==
    /\ issued < MaxOps
    /\ tasks = {}
    /\ LET v1 == syncBody(vault, t)
       IN /\ file' = encrypt(v1, masterSeed)
          /\ vault' = [v1 EXCEPT !.backups = @ \cup {"ipfs"}]
    /\ issued' = issued + 1
    /\ now' = t
    /\ last' = Outcome("sync", [NoArg EXCEPT !.note = issued + 1], "ok", vault)
    /\ UNCHANGED <<nextId, tasks, base, oplog, clean, serial, masterSeed, elsewhere>>

NextSync ==
    \/ \E s \in Sites, t \in Later(now) : AddPassword(s, "pw1", t)
    \/ \E t \in Later(now) : AddNote("t1", t)
    \/ \E k \in tasks, t \in Later(now) : SaveResume(k, t)
    \/ \E k \in tasks : WriteDone(k)
    \/ \E t \in Later(now) : Sync(t)

SpecSync == Init /\ [][NextSync]_vars

----------------------------------------------------------------------------
(* RecoverCommand                                                          *)

RecoverySources == {"auto", "local", "arweave", "nostr"}

\* VaultManager.recover: loadVault(), then this.vault is returned
recover(cur, f, seed, t) == [threw |-> FALSE, vault |-> <<loadVault(cur, f, seed, t)>>]

\* recoverFromLocal / recoverFromArweave / recoverFromNostr: does it return?
recoverFrom(source, r) ==
    IF source = "local" THEN ~r.threw ELSE FALSE

\* recoverAuto: local, arweave, nostr in that order, the first that returns
recoverAuto(r) == \E source \in {"local", "arweave", "nostr"} : recoverFrom(source, r)

\* performRecovery: one source, then once more with "auto", then the error
performRecovery(source, r) ==
    IF source = "auto"
    THEN IF recoverAuto(r) THEN "recovered" ELSE "CouldNotRecover"
    ELSE IF recoverFrom(source, r) THEN "recovered"
    ELSE IF recoverAuto(r) THEN "recovered" ELSE "CouldNotRecover"

\* keyforge recover --from <source> with the seed of the passphrase given
Recover(seed, source, t) ==
    /\ CommandStarts
    /\ masterSeed' = seed
    /\ LET v0 == constructor(file, seed, t)
           r == recover(v0, file, seed, t)
       IN /\ vault' = r.vault[1]
          /\ cli' = Ran("recover", source, FALSE, FALSE, performRecovery(source, r),
                        v0, r.vault[1], file)
    /\ now' = t
    /\ base' = vault'
    /\ oplog' = <<>>
    /\ last' = Outcome("recover", [NoArg EXCEPT !.title = Found(file, seed)], "ok", vault)
    /\ UNCHANGED <<file, exportFile, nextId, tasks, issued, clean, serial,
                   cryptoVars, sessionVars, restVars>>

NextRecover ==
    \/ \E s \in Seeds, src \in RecoverySources, t \in Later(now) : Recover(s, src, t)
    \/ FileRemoved
    \/ FileDamaged

SpecRecover == InitSaved /\ [][NextRecover]_vars

----------------------------------------------------------------------------
(* Reference: the calls of oplog applied one after another *)

MutatingOps ==
    { "addPassword", "updatePassword", "deletePassword",
      "addNote", "updateNote", "deleteNote",
      "addSSHConfig", "addSSHKey", "addWalletConfig", "addWallet",
      "addGPGKey", "addTOTP", "clear" }

ApplyOp(v, e) ==
    CASE e.op = "addPassword" ->
            addPasswordBody(v, e.id, e.arg.site, "alice", e.arg.password, e.t)
      [] e.op = "updatePassword" ->
            updatePasswordBody(v, FindSite(v.passwords, e.arg.site), e.arg.patch, e.t)
      [] e.op = "deletePassword" ->
            deletePasswordBody(v, FindSite(v.passwords, e.arg.site), e.t)
      [] e.op = "addNote" -> addNoteBody(v, e.id, e.arg.title, e.t)
      [] e.op = "updateNote" ->
            updateNoteBody(v, FindNote(v.notes, e.arg.note), [title |-> e.arg.title], e.t)
      [] e.op = "deleteNote" -> deleteNoteBody(v, FindNote(v.notes, e.arg.note), e.t)
      [] e.op \in {"addSSHConfig", "addSSHKey"} -> addSSHBody(v, e.id, e.arg.site, e.t)
      [] e.op = "addWalletConfig" ->
            addWalletConfigBody(v, e.id, e.arg.site, e.arg.title, e.t)
      [] e.op = "addWallet" -> addWalletBody(v, e.id, e.arg.site, e.arg.title, e.t)
      [] e.op = "addGPGKey" -> addGPGKeyBody(v, e.id, e.arg.site, e.arg.note, e.t)
      [] e.op = "addTOTP" -> addTOTPBody(v, e.id, e.arg.site, e.t)
      [] e.op = "clear" -> initializeVault(e.t)

RECURSIVE ApplyAll(_, _)
ApplyAll(v, log) ==
    IF log = <<>> THEN v ELSE ApplyAll(ApplyOp(v, Head(log)), Tail(log))

\* the records of a vault, as JSON shows them
Records(v) ==
    LET j == Stringify(v)
    IN [ ssh |-> j.ssh, gpg |-> j.gpg, wallets |-> j.wallets, totp |-> j.totp,
         passwords |-> j.passwords, notes |-> j.notes ]

\* the caller's last call has settled and nothing is in flight
Returned(ops, results) ==
    /\ tasks = {}
    /\ last.op \in ops
    /\ last.result \in results

----------------------------------------------------------------------------
(* Claims *)

\* C1: after every mutating call returns, metadata.checksum is the checksum
\* of the in-memory vault, i.e. validateIntegrity() is true.
C1_ChecksumValidAfterMutation ==
    (serial /\ Returned(MutatingOps, {"ok"})) => validateIntegrity(vault)

\* C2: no two entries of passwords have the same site.
C2_SitesUnique ==
    \A i, j \in 1..Len(vault.passwords) :
        i # j => vault.passwords[i].site # vault.passwords[j].site

\* C3: addPassword for a site the vault already holds fails with AlreadyExists.
C3_DuplicateAddRejected ==
    (serial /\ Returned({"addPassword"}, {"ok", "Io", "AlreadyExists"})
            /\ FindSite(last.pre.passwords, last.arg.site) # 0)
        => last.result = "AlreadyExists"

\* C4: once all calls made without awaiting one another have completed, the
\* in-memory vault and the vault decoded from the file both hold the effect of
\* every call exactly once.
C4_ConcurrentCallsAllIncluded ==
    (~serial /\ clean /\ Returned(MutatingOps, {"ok"}))
        => /\ Records(vault) = Records(ApplyAll(base, oplog))
           /\ CanDecrypt(file, MasterSeed)
           /\ Records(decrypt(file)) = Records(ApplyAll(base, oplog))

\* C5: once the vault file holds a complete vault it holds a complete vault
\* (the previous or the new one) at every later point, during a save included.
C5_FileAlwaysComplete ==
    [][file.kind = "vault" => file'.kind = "vault"]_vars

\* C6: with every call awaited before the next, after call N returns the
\* vault decoded from the file is the result of applying calls 1..N in order
\* to the vault the manager started from.
C6_FileReflectsCallsInOrder ==
    (serial /\ Returned(MutatingOps, {"ok"}))
        => /\ CanDecrypt(file, MasterSeed)
           /\ Records(decrypt(file)) = Records(ApplyAll(base, oplog))

C6_Witness ==
    /\ serial /\ Returned({"updatePassword"}, {"ok"})
    /\ Len(oplog) = 2
    /\ oplog[1].op = "addPassword"
    /\ Len(vault.passwords[1].passwordHistory) = 1

\* C7: a mutating call that fails leaves the in-memory vault as it was before
\* the call.
C7_FailedCallLeavesVault ==
    (serial /\ Returned(MutatingOps, {"NotFound", "AlreadyExists", "Io"}))
        => vault = last.pre

\* C8: updatePassword / deletePassword of a site, and updateNote / deleteNote
\* of an id, that the vault does not hold fail with NotFound.
C8_AbsentRecordNotFound ==
    /\ (Returned({"updatePassword", "deletePassword"}, {"ok", "Io", "NotFound"})
            /\ FindSite(last.pre.passwords, last.arg.site) = 0)
          => last.result = "NotFound"
    /\ (Returned({"updateNote", "deleteNote"}, {"ok", "Io", "NotFound"})
            /\ FindNote(last.pre.notes, last.arg.note) = 0)
          => last.result = "NotFound"

C8_Witness ==
    /\ Returned({"updatePassword"}, {"NotFound"})
    /\ Len(last.pre.passwords) = 1
    /\ Len(last.pre.notes) = 0
    /\ vault = last.pre

\* C9: on updatePassword the previous password is prepended to the history
\* iff the patch changes the password to a different value; every other
\* update leaves the history unchanged.
C9_HistoryPrepended ==
    (serial /\ Returned({"updatePassword"}, {"ok"}))
        => LET i == FindSite(last.pre.passwords, last.arg.site)
               old == last.pre.passwords[i]
               new == vault.passwords[i]
               pw == last.arg.patch.password
               histPw(h) == [k \in 1..Len(h) |-> h[k].password]
           IN histPw(new.passwordHistory) =
                 IF pw # Absent /\ pw # old.password
                 THEN <<old.password>> \o histPw(old.passwordHistory)
                 ELSE histPw(old.passwordHistory)

\* C10: Vault.updated is at least Vault.created and at least the modified
\* timestamp of every password and note.
TimesOrdered(v) ==
    /\ v.updated >= v.created
    /\ \A i \in 1..Len(v.passwords) : v.updated >= v.passwords[i].modified
    /\ \A i \in 1..Len(v.notes) : v.updated >= v.notes[i].modified

C10_UpdatedIsLatest ==
    /\ TimesOrdered(vault)
    /\ CanDecrypt(file, MasterSeed) => TimesOrdered(decrypt(file))

C10_Witness ==
    /\ Returned({"updatePassword"}, {"ok"})
    /\ Len(vault.passwords) = 1
    /\ vault.passwords[1].modified > vault.created
    /\ vault.updated = vault.passwords[1].modified
    /\ CanDecrypt(file, MasterSeed)

\* C11: after a save() has completed, a fresh VaultManager constructed with
\* the same seed and path and then load()ed holds a vault equal (toEqual) to
\* the vault of the instance that saved.
C11_SaveThenFreshLoad ==
    (serial /\ Returned(MutatingOps, {"ok"}))
        => \A t1 \in Later(now) : \A t2 \in Later(t1) :
              toEqual(loadVault(constructor(file, MasterSeed, t1), file, MasterSeed, t2),
                      vault)

C11_Witness ==
    /\ serial /\ Returned({"addWallet"}, {"ok"})
    /\ Len(vault.wallets) = 1
    /\ vault.wallets[1].xpub = Undefined
    /\ constructor(file, MasterSeed, now).wallets[1].xpub = Absent
    /\ vault.updated > vault.created

\* the box under examination differs from the one that was sealed
Modified == sealed.kind = "box" /\ sealed.parts # sealed.made

Decrypted == sealed.kind = "box" /\ opened # NoBox

\* C12: decrypt of an encrypted vault whose ciphertext, nonce or tag was
\* modified never returns a vault, and every failure of decrypt, whatever
\* its cause, is the one VaultCorrupt error.
C12_TamperIsVaultCorrupt ==
    Decrypted =>
        /\ Modified => opened.result.kind = "error"
        /\ opened.result.kind = "error" => opened.result.error = VaultCorrupt

C12_Witness ==
    /\ Decrypted /\ Modified
    /\ sealed.input # <<>>
    /\ opened.seed = sealed.seed
    /\ sealed.parts.encrypted.flip = 1
    /\ sealed.parts.nonce = sealed.made.nonce
    /\ sealed.parts.tag = sealed.made.tag
    /\ opened.result.cause = "tag"

C14_FailedLoadLeavesEmptyVault ==
    (Returned({"construct", "load"}, {"ok", "Io", "VaultCorrupt"})
            /\ last.arg.title # "intact")
        => /\ last.result = "ok"
           /\ Records(vault) = Records(initializeVault(now))

\* the ids of the records a vault file holds, whoever sealed it
RecordIds(f) ==
    IF f.kind # "vault" THEN {}
    ELSE LET v == decrypt(f)
             ids(recs) == {recs[i].id : i \in 1..Len(recs)}
         IN ids(v.ssh) \cup ids(v.gpg) \cup ids(v.wallets) \cup ids(v.totp)
               \cup ids(v.passwords) \cup ids(v.notes)

\* C15: a save that replaces a populated vault file keeps every record the
\* file held, unless the call is an explicit delete or clear.
C15_OnlyDeleteOrClearDiscards ==
    [][\A k \in tasks :
          (k.pc = "writing" /\ k \notin tasks' /\ file'.kind = "vault"
              /\ k.op \notin {"deletePassword", "deleteNote", "clear"})
            => RecordIds(k.old) \subseteq RecordIds(file')]_vars

\* the record set of a vault: what each entry says, whatever its id and
\* timestamps
RecordSet(v) ==
    LET SetOf(recs, F(_)) == {F(recs[i]) : i \in 1..Len(recs)}
        Ssh(r) == [hostname |-> r.hostname]
        Gpg(r) == [service |-> r.service]
        Wallet(r) == [service |-> r.service,
                      xpub |-> IF r.xpub = Undefined THEN Absent ELSE r.xpub]
        Totp(r) == [service |-> r.service]
        Password(r) ==
            [site |-> r.site, username |-> r.username, password |-> r.password,
             history |-> [k \in 1..Len(r.passwordHistory) |->
                             r.passwordHistory[k].password]]
        Note(r) == [title |-> r.title, attachments |-> r.attachments]
    IN [ ssh |-> SetOf(v.ssh, Ssh), gpg |-> SetOf(v.gpg, Gpg),
         wallets |-> SetOf(v.wallets, Wallet), totp |-> SetOf(v.totp, Totp),
         passwords |-> SetOf(v.passwords, Password), notes |-> SetOf(v.notes, Note) ]

Imported(merge) ==
    /\ cli.op = "import" /\ cli.result = "ok"
    /\ cli.merge = merge /\ ~cli.dryRun

\* C16: an export of the vault without filters, in any of the three formats,
\* imported in replace mode leaves a vault with the same record set.
C16_ExportImportRoundTrip ==
    (Imported(FALSE)
        /\ \E f \in Formats :
              cli.source = exportContainer(cli.vaultBefore[1], f, masterSeed))
      => /\ RecordSet(cli.vaultAfter[1]) = RecordSet(cli.vaultBefore[1])
         /\ RecordSet(decrypt(cli.fileAfter)) = RecordSet(cli.vaultBefore[1])

\* C17: an import with the dry-run option leaves the vault file and the
\* vault as they were, whatever the format and the mode.
C17_DryRunChangesNothing ==
    (cli.op = "import" /\ cli.dryRun)
        => /\ cli.fileAfter = cli.fileBefore
           /\ cli.vaultAfter = cli.vaultBefore

C17_Witness ==
    /\ cli.op = "import" /\ cli.dryRun /\ cli.result = "dry"
    /\ ~cli.merge
    /\ cli.format = "encrypted"
    /\ cli.fileBefore.kind = "vault"
    /\ RecordSet(cli.source.data[1]) # RecordSet(cli.vaultBefore[1])
    /\ file = cli.fileBefore

\* every entry of list a is an entry of list b, field for field
Kept(a, b) == \A i \in 1..Len(a) : \E j \in 1..Len(b) : b[j] = a[i]

Preserved(v, w) ==
    /\ Kept(v.ssh, w.ssh) /\ Kept(v.gpg, w.gpg) /\ Kept(v.wallets, w.wallets)
    /\ Kept(v.totp, w.totp) /\ Kept(v.passwords, w.passwords)
    /\ Kept(v.notes, w.notes)

\* C18: after an import in merge mode every record the vault held before
\* the merge is still in the vault, in memory and in the file, with the
\* same field values.
C18_MergePreservesExisting ==
    Imported(TRUE)
        => /\ Preserved(cli.vaultBefore[1], cli.vaultAfter[1])
           /\ Preserved(cli.vaultBefore[1], decrypt(cli.fileAfter))

C18_Witness ==
    /\ Imported(TRUE)
    /\ Len(cli.vaultBefore[1].passwords) = 1
    /\ cli.vaultBefore[1].passwords[1].password = "pw1"
    /\ Len(cli.source.data[1].passwords) = 1
    /\ cli.source.data[1].passwords[1].password = "pw2"
    /\ Len(cli.vaultAfter[1].passwords) = 1
    /\ Len(cli.vaultBefore[1].notes) = 0
    /\ Len(cli.vaultAfter[1].notes) = 1

\* C19: once more than the timeout has passed since the most recent
\* initialize or successful getMasterSeed, the cached seed is cleared and
\* getMasterSeed returns null.
C19_IdleSessionExpires ==
    (session.accessed >= 0 /\ clock > session.accessed + TIMEOUT_MS)
        => /\ session.masterSeed = Undefined
           /\ session.timers = {}

C19_Witness ==
    /\ session.since = 0
    /\ session.accessed = 1
    /\ clock > session.accessed + TIMEOUT_MS
    /\ session.expired = TIMEOUT_MS
    /\ session.masterSeed = Undefined
    /\ session.got = "null"

\* C20: a timer clears an active session only when the full timeout has
\* passed since the most recent initialize or successful getMasterSeed; a
\* timer armed before that access never clears it.
C20_AccessRestartsTimeout ==
    /\ session.expired \in {-1} \cup (TIMEOUT_MS..MaxClock)
    /\ session.masterSeed # Undefined
         => \A tm \in session.timers : tm.due = session.accessed + TIMEOUT_MS

C20_Witness ==
    /\ session.since = 0
    /\ session.accessed = 2
    /\ session.got = "seed1"
    /\ session.masterSeed = "seed1"
    /\ clock = 3
    /\ session.expired = -1

\* C21: once the session has ended (clear, timeout, exit, SIGINT or SIGTERM)
\* no Buffer the session has held still contains a master seed.
C21_SeedWipedWhenSessionEnds ==
    (held = 0 /\ session.since >= 0)
        => \A b \in 1..Len(heap) : heap[b].bytes = Zeros

\* C28: every vault file a VaultManager writes is sealed with the master
\* seed the manager was constructed with, whatever happens to the session
\* meanwhile.
C28_SavesUseConstructionSeed ==
    (seedRef # 0 /\ file.kind = "vault") => CanDecrypt(file, masterSeed)

C23_LengthHonouredUpTo255Blocks ==
    (kdf.cur.fn = "deriveKey" /\ kdf.cur.out # <<>>) =>
        LET len == kdf.cur.args.keyLength
            r == kdf.cur.out[1]
        IN /\ (1 <= len /\ len <= 16320) => (r.status = "ok" /\ r.length = len)
           /\ r.status = "ok" => r.length <= 64 * Len(r.parts)
           /\ r.status = "BadLength" <=> (len + 63) \div 64 > 255

C23_Witness ==
    /\ kdf.cur.fn = "deriveKey"
    /\ kdf.cur.args.keyLength = 16320
    /\ kdf.cur.out # <<>>
    /\ kdf.cur.out[1].status = "ok"
    /\ kdf.cur.out[1].length = 16320
    /\ Len(kdf.cur.out[1].parts) = 255

\* C24: a master seed derived without a user label is the seed of the label
\* "default" and version 1, at deriveMasterSeed and at initialize alike.
C24_NoLabelMeansDefault ==
    (kdf.cur.fn \in {"deriveMasterSeed", "initialize"}
        /\ kdf.cur.args.username = Undefined
        /\ kdf.cur.args.version = <<>>)
    => kdf.cur.out[1] = MasterDerivation_deriveMasterSeed(
                            [ passphrase |-> kdf.cur.args.passphrase,
                              username |-> "default", version |-> <<1>> ])

\* C25: generating a code for a service the vault already has an entry
\* for adds nothing, so generations alone leave at most one entry per service.
C25_GenerateAddsAtMostOnce ==
    (cli.op = "totp" /\ CountTOTP(cli.vaultBefore[1], cli.format) > 0)
        => CountTOTP(decrypt(cli.fileAfter), cli.format)
              = CountTOTP(cli.vaultBefore[1], cli.format)

\* C26: right after reset(), getValue gives the original default of every
\* default key, whatever setValue calls came before.
C26_ResetRestoresDefaults ==
    (config.built /\ config.lastOp = "reset")
        => \A sec \in Sections : getValue(config, sec) = OriginalDefault(sec)

\* C27: once every concurrent command has completed, the vault file holds
\* the password each of them added.
C27_NoCommandUpdateLost ==
    (instances # <<>> /\ \A c \in Commands : instances[c].pc = "done")
        => /\ CanDecrypt(file, masterSeed)
           /\ \A c \in Commands : FindSite(decrypt(file).passwords, CommandSite(c)) # 0

\* C29: when sync() has returned, the vault decoded from the vault file is
\* the in-memory vault.
C29_SyncPersistsEverything ==
    (last.op = "sync" /\ last.arg.note = issued)
        => /\ CanDecrypt(file, masterSeed)
           /\ decrypt(file) = vault

\* C30: the recover command reports success only when a vault was read and
\* decoded from the vault file; otherwise it ends with the error that no
\* source held the vault.
C30_SuccessOnlyIfVaultDecoded ==
    cli.op = "recover" =>
        (cli.result = "recovered" <=> Found(cli.fileBefore, masterSeed) = "intact")

====
